---- MODULE Spec2Model ----
(***************************************************************************)
(* The metric store of cmd/server/main.go: MemStorageImpl (a slice of      *)
(* Metric guarded by a sync.RWMutex), its Add and Get methods, and the two *)
(* gin handlers that call them.  Every request is served by its own        *)
(* goroutine; a goroutine is a process of the model, and each statement    *)
(* that touches shared memory is one step.                                 *)
(***************************************************************************)
EXTENDS Integers, Sequences, FiniteSets, TLC

\* Bounds of the model.
NumProcs == 2        \* goroutines serving requests at the same time
MaxCalls == 4        \* requests served in one behaviour
IntBits == 4         \* width of the model's int64 (two's complement)

Procs == 1..NumProcs

\* const ( GaugeType MetricType = iota; CounterType )
GaugeType == 0
CounterType == 1

Names == {"x"}

--------------------------------------------------------------------------
\* int64 arithmetic.

Pow2(k) == 2 ^ k
MaxInt64 == Pow2(IntBits - 1) - 1
MinInt64 == 0 - Pow2(IntBits - 1)

\* The value of x in two's complement of IntBits bits.
Wrap(x) == ((x + Pow2(IntBits - 1)) % Pow2(IntBits)) - Pow2(IntBits - 1)

--------------------------------------------------------------------------
\* Values of the interface{} field Metric.Value: the dynamic type and the
\* number (num/den; den = 1 for an int64).

NilValue == [rep |-> "nil", num |-> 0, den |-> 1]
Int64Val(v) == [rep |-> "int64", num |-> v, den |-> 1]
Float64Val(nu, de) == [rep |-> "float64", num |-> nu, den |-> de]

\* Metric{} : the zero value make() fills a new slice with.
ZeroMetric == [Name |-> "", Type |-> GaugeType, Value |-> NilValue]

--------------------------------------------------------------------------
\* strconv: a string is a sequence of one-character strings.

Digits == <<"0", "1", "2", "3", "4", "5", "6", "7", "8", "9">>
IsDigit(c) == \E d \in 1..10 : Digits[d] = c
DigitVal(c) == (CHOOSE d \in 1..10 : Digits[d] = c) - 1

RECURSIVE IntToStr(_)
IntToStr(v) ==
    IF v < 10 THEN <<Digits[v + 1]>>
    ELSE IntToStr(v \div 10) \o <<Digits[(v % 10) + 1]>>

AllDigits(s) == \A k \in 1..Len(s) : IsDigit(s[k])

RECURSIVE DigitsValue(_)
DigitsValue(s) ==
    IF Len(s) = 0 THEN 0
    ELSE 10 * DigitsValue(SubSeq(s, 1, Len(s) - 1)) + DigitVal(s[Len(s)])

HasSign(s) == Len(s) > 0 /\ s[1] \in {"+", "-"}
Unsigned(s) == IF HasSign(s) THEN Tail(s) ELSE s
IsNeg(s) == Len(s) > 0 /\ s[1] = "-"

\* strconv.ParseInt(s, 10, 64): an optional sign, then one or more decimal
\* digits; a value outside the int64 range is an error (ErrRange).
ParseInt(s) ==
    LET u == Unsigned(s)
        un == DigitsValue(u)
    IN  IF Len(u) = 0 \/ ~AllDigits(u)
        THEN [err |-> TRUE, val |-> Int64Val(0)]
        ELSE IF ~IsNeg(s) /\ un > MaxInt64
        THEN [err |-> TRUE, val |-> Int64Val(MaxInt64)]
        ELSE IF IsNeg(s) /\ un > 0 - MinInt64
        THEN [err |-> TRUE, val |-> Int64Val(MinInt64)]
        ELSE [err |-> FALSE, val |-> Int64Val(IF IsNeg(s) THEN 0 - un ELSE un)]

DotAt(s) == IF \E k \in 1..Len(s) : s[k] = "."
            THEN CHOOSE k \in 1..Len(s) : s[k] = "." /\ \A l \in 1..(k - 1) : s[l] # "."
            ELSE Len(s) + 1

RECURSIVE Reduce10(_, _)
Reduce10(nu, de) ==
    IF de > 1 /\ nu % 10 = 0 THEN Reduce10(nu \div 10, de \div 10)
    ELSE Float64Val(nu, de)

\* strconv.ParseFloat(s, 64) on the decimal texts without exponent: an
\* optional sign, digits with at most one point, at least one digit.
ParseFloat(s) ==
    LET u == Unsigned(s)
        d == DotAt(u)
        ip == SubSeq(u, 1, d - 1)
        fp == SubSeq(u, d + 1, Len(u))
        mant == DigitsValue(ip \o fp)
        r == Reduce10(mant, 10 ^ Len(fp))
    IN  IF Len(ip) + Len(fp) = 0 \/ ~AllDigits(ip) \/ ~AllDigits(fp)
        THEN [err |-> TRUE, val |-> Float64Val(0, 1)]
        ELSE [err |-> FALSE,
              val |-> IF IsNeg(s) THEN Float64Val(0 - r.num, r.den) ELSE r]

\* The requests of the model: the :type, :name and :value path parameters.
GaugeStrs == { <<"1">>, <<"1", ".", "5">>, <<"a">> }
CounterStrs ==
    { <<"1">>, <<"-", "1">>, IntToStr(MaxInt64), IntToStr(MaxInt64 + 1),
      <<"1", ".", "5">> }
Requests ==
    ({"gauge"} \X Names \X GaugeStrs)
        \cup ({"counter"} \X Names \X CounterStrs)
        \cup ({"histogram"} \X Names \X {<<"1">>})

--------------------------------------------------------------------------
\* Slices.  A slice is a view (arr, len, cap) of a backing array of the heap;
\* two slices with the same arr share their elements.

NilSlice == [arr |-> <<"nil", 0>>, len |-> 0, cap |-> 0]

VARIABLES
    metrics,    \* MemStorageImpl.metrics: the slice header
    heap,       \* backing arrays: array id -> sequence of Metric
    wmu,        \* RWMutex: the goroutines holding or claiming the write lock
    readers,    \* RWMutex: the goroutines holding a read lock
    pc,         \* each goroutine's position
    req,        \* the path parameters of the update request being served
    m,          \* Add's parameter m
    i,          \* Add: the range index
    n,          \* Add: the length range iterates over; Get: len of make
    tmp,        \* Add: the value of the right-hand side of line 55
    res,        \* Get: the local slice metrics
    j,          \* Get: elements copied so far
    snap,       \* the slice Get returned to the handler: its local metrics
    out,        \* the lines the handler has written to the response
    calls,      \* requests served so far
    abs,        \* history: the Adds applied so far, merged one at a time
    total,      \* history: per counter applied, the sum of the values applied
    lastG,      \* history: per gauge applied, the value applied last
    seen,       \* history: the contents the store had during a goroutine's Get
    snapVal,    \* history: what snap held when Get returned it
    pure        \* history: every request so far was POST /update/counter/x/1

vars == <<metrics, heap, wmu, readers, pc, req, m, i, n, tmp, res, j, snap, out, calls,
          abs, total, lastG, seen, snapVal, pure>>

locals == <<m, i, n, tmp, res, j>>
hist == <<abs, total, lastG, seen, snapVal, pure>>

\* The elements a slice shows.
Contents(h, s) == IF s.len = 0 THEN <<>> ELSE SubSeq(h[s.arr], 1, s.len)

\* The arrays still referenced; the others are garbage.
Roots(ms, rs, sn) ==
    {ms.arr} \cup {rs[p].arr : p \in Procs} \cup {sn[p].arr : p \in Procs}
Collect(h, roots) == [a \in (DOMAIN h) \cap roots |-> h[a]]

Zeros(k) == [q \in 1..k |-> ZeroMetric]

\* runtime growslice: the capacity append gives a full slice.
GrowCap(c) == IF c = 0 THEN 1 ELSE 2 * c

\* s.metrics = []Metric{m}: an append that drops the entries there are.
AppendSliceReplace(h, s, e) ==
    LET a == <<"fresh", s.len + 1>>
    IN  << [arr |-> a, len |-> 1, cap |-> 1],
           [b \in (DOMAIN h) \cup {a} |-> IF b = a THEN <<e>> ELSE h[b]] >>

\* append([]Metric{m}, s.metrics...): the new entry put first.
AppendSlicePrepend(h, s, e) ==
    LET a == <<"fresh", s.len + 1>>
    IN  << [arr |-> a, len |-> s.len + 1, cap |-> s.len + 1],
           [b \in (DOMAIN h) \cup {a} |->
               IF b = a THEN <<e>> \o Contents(h, s) ELSE h[b]] >>

\* append(s, e): in place when there is room, else into a new, larger array.
\* The pair <<slice, heap>> after the call.
AppendSlice(h, s, e) ==
    IF s.len < s.cap
    THEN << [s EXCEPT !.len = s.len + 1],
            [h EXCEPT ![s.arr][s.len + 1] = e] >>
    ELSE LET c == GrowCap(s.cap)
             a == <<"store", c>>
         IN  << [arr |-> a, len |-> s.len + 1, cap |-> c],
                [b \in (DOMAIN h) \cup {a} |->
                    IF b = a THEN Contents(h, s) \o <<e>> \o Zeros(c - s.len - 1)
                    ELSE h[b]] >>

\* The array make([]Metric, k) allocates for goroutine p.
MakeArr(p) == <<"res", p>>

\* Get returning the store's own slice.
ReturnedAlias(r, s) == s

\* line 71: the slice Get returns, r its local metrics and s the store's.
Returned(r, s) == r

--------------------------------------------------------------------------
\* sync.RWMutex.  Lock takes the writers' mutex, which also stops new
\* readers, and then waits until the readers that hold the lock have left.

\* Lock that does not exclude another writer.
WLockFreeBroken(w, p) == TRUE
WLockFree(w, p) == w = {}

\* Lock that does not wait for the readers to leave.
WNoReadersBroken(rd, p) == TRUE
WNoReaders(rd, p) == rd = {}

\* An Unlock at the end of Add only, which the return of line 57 skips.
ReleaseNotOnMatch(w, p, path) == IF path = "match" THEN w ELSE w \ {p}

\* An Unlock that is not deferred, which a panic skips.
ReleaseNotOnPanic(w, p, path) == IF path = "panic" THEN w ELSE w \ {p}

\* line 47: defer s.Unlock() releases the lock however Add ends: after the
\* return of line 57 ("match"), after line 61 ("append"), in a panic.
Release(w, p, path) == w \ {p}

\* RLock that does not wait for the writer.
RLockFreeBroken(w, p) == TRUE
RLockFree(w, p) == w = {}

--------------------------------------------------------------------------
\* Add, lines 49-56.

\* The comparison of line 50 without the kinds.
MatchesNameOnly(e, mm) == e.Name = mm.Name

\* line 50: the entry e is the one m updates.
Matches(e, mm) == e.Name = mm.Name /\ e.Type = mm.Type

\* line 55: both operands of the sum pass the assertion .(int64).
AssertInt64(old, new) == old.rep = "int64" /\ new.rep = "int64"

\* line 55: s.metrics[i].Value.(int64) + m.Value.(int64)
CounterSum(old, new) == Int64Val(Wrap(old.num + new.num))

\* A gauge branch that keeps the stored value.
GaugeMergeKeep(old, new) == old

\* line 53: the value a gauge entry gets.
GaugeMerge(old, new) == new

--------------------------------------------------------------------------
\* Add as one atomic step on a sequence of metrics: what the history
\* variable abs records.

FirstMatch(st, mm) ==
    IF \E k \in 1..Len(st) : st[k].Name = mm.Name /\ st[k].Type = mm.Type
    THEN CHOOSE k \in 1..Len(st) :
            /\ st[k].Name = mm.Name /\ st[k].Type = mm.Type
            /\ \A l \in 1..(k - 1) : ~(st[l].Name = mm.Name /\ st[l].Type = mm.Type)
    ELSE 0

SeqAdd(st, mm) ==
    LET k == FirstMatch(st, mm)
    IN  IF k = 0 THEN Append(st, mm)
        ELSE IF mm.Type = GaugeType THEN [st EXCEPT ![k].Value = mm.Value]
        ELSE [st EXCEPT ![k].Value = Int64Val(Wrap(st[k].Value.num + mm.Value.num))]

InGet(p) == pc[p] \in {"RLock", "make", "copy", "RUnlock"}

\* The history after Add's write of metric mm took effect.
Effect(mm) ==
    /\ abs' = SeqAdd(abs, mm)
    /\ total' = IF mm.Type = CounterType
                THEN [nm \in (DOMAIN total) \cup {mm.Name} |->
                        (IF nm \in DOMAIN total THEN total[nm] ELSE 0)
                            + (IF nm = mm.Name THEN mm.Value.num ELSE 0)]
                ELSE total
    /\ lastG' = IF mm.Type = GaugeType
                THEN [nm \in (DOMAIN lastG) \cup {mm.Name} |->
                        IF nm = mm.Name THEN mm.Value ELSE lastG[nm]]
                ELSE lastG
    /\ seen' = [p \in Procs |->
                  IF InGet(p) THEN seen[p] \cup {SeqAdd(abs, mm)} ELSE seen[p]]
    /\ UNCHANGED <<snapVal, pure>>

Init ==
    /\ metrics = NilSlice
    /\ heap = [a \in {} |-> <<>>]
    /\ wmu = {}
    /\ readers = {}
    /\ pc = [p \in Procs |-> "idle"]
    /\ req = [p \in Procs |-> <<>>]
    /\ m = [p \in Procs |-> ZeroMetric]
    /\ i = [p \in Procs |-> 0]
    /\ n = [p \in Procs |-> 0]
    /\ tmp = [p \in Procs |-> NilValue]
    /\ res = [p \in Procs |-> NilSlice]
    /\ j = [p \in Procs |-> 0]
    /\ snap = [p \in Procs |-> NilSlice]
    /\ out = [p \in Procs |-> <<>>]
    /\ calls = 0
    /\ abs = <<>>
    /\ total = [nm \in {} |-> 0]
    /\ lastG = [nm \in {} |-> NilValue]
    /\ seen = [p \in Procs |-> {}]
    /\ snapVal = [p \in Procs |-> <<>>]
    /\ pure = TRUE

--------------------------------------------------------------------------
\* POST /update/:type/:name/:value, lines 92-126.

\* The handler with the error checks of lines 105-112 left out.
ParseValueNoErr(t, vs) ==
    IF t = "gauge" THEN [err |-> FALSE, val |-> ParseFloat(vs).val]
    ELSE [err |-> FALSE, val |-> ParseInt(vs).val]

\* A handler that parses the value of a counter as it does that of a gauge.
ParseValueAsFloat(t, vs) ==
    IF t \in {"gauge", "counter"} THEN ParseFloat(vs)
    ELSE [err |-> TRUE, val |-> NilValue]

\* lines 100-112: the parsed value, or the rejection (400).
ParseValue(t, vs) ==
    IF t = "gauge" THEN ParseFloat(vs)
    ELSE IF t = "counter" THEN ParseInt(vs)
    ELSE [err |-> TRUE, val |-> NilValue]

\* lines 114-121
MakeMetric(t, nm, v) ==
    [Name |-> nm, Type |-> IF t = "counter" THEN CounterType ELSE GaugeType,
     Value |-> v]

UnitAdd == [Name |-> "x", Type |-> CounterType, Value |-> Int64Val(1)]

\* lines 92-95: a goroutine takes an update request.
Receive(p) ==
    /\ pc[p] = "idle"
    /\ calls < MaxCalls
    /\ calls' = calls + 1
    /\ \E rq \in Requests : req' = [req EXCEPT ![p] = rq]
    /\ pc' = [pc EXCEPT ![p] = "parse"]
    /\ UNCHANGED <<metrics, heap, wmu, readers, locals, snap, out, hist>>

\* lines 97-123: the handler answers 400, or calls Add.
Update(p) ==
    /\ pc[p] = "parse"
    /\ LET r == ParseValue(req[p][1], req[p][3])
           mm == MakeMetric(req[p][1], req[p][2], r.val)
       IN  IF r.err
           THEN /\ pc' = [pc EXCEPT ![p] = "idle"]
                /\ m' = m
                /\ pure' = FALSE
           ELSE /\ pc' = [pc EXCEPT ![p] = "Lock"]
                /\ m' = [m EXCEPT ![p] = mm]
                /\ pure' = (pure /\ mm = UnitAdd)
    /\ req' = [req EXCEPT ![p] = <<>>]
    /\ UNCHANGED <<metrics, heap, wmu, readers, i, n, tmp, res, j, snap, out, calls,
                   abs, total, lastG, seen, snapVal>>

\* line 46: s.Lock(), the writers' mutex.
AddLock(p) ==
    /\ pc[p] = "Lock"
    /\ WLockFree(wmu, p)
    /\ wmu' = wmu \cup {p}
    /\ pc' = [pc EXCEPT ![p] = "LockWait"]
    /\ UNCHANGED <<req, out, metrics, heap, readers, locals, snap, calls, hist>>

\* line 46: s.Lock() returns when no reader holds the lock; line 49: range
\* evaluates the length of s.metrics once.
AddLockWait(p) ==
    /\ pc[p] = "LockWait"
    /\ WNoReaders(readers, p)
    /\ pc' = [pc EXCEPT ![p] = "scan"]
    /\ n' = [n EXCEPT ![p] = metrics.len]
    /\ i' = [i EXCEPT ![p] = 1]
    /\ UNCHANGED <<req, out, metrics, heap, wmu, readers, m, tmp, res, j, snap, calls, hist>>

\* lines 49-50: one iteration of the loop.
AddScan(p) ==
    /\ pc[p] = "scan"
    /\ IF i[p] > n[p]
       THEN pc' = [pc EXCEPT ![p] = "append"] /\ i' = i
       ELSE IF Matches(heap[metrics.arr][i[p]], m[p])
       THEN pc' = [pc EXCEPT ![p] = "merge"] /\ i' = i
       ELSE pc' = pc /\ i' = [i EXCEPT ![p] = @ + 1]
    /\ UNCHANGED <<req, out, metrics, heap, wmu, readers, m, n, tmp, res, j, snap, calls, hist>>

\* lines 51-55: the gauge's assignment, or the right-hand side of the
\* counter's, whose type assertions panic on a value that is no int64.
AddMerge(p) ==
    /\ pc[p] = "merge"
    /\ LET old == heap[metrics.arr][i[p]].Value
       IN  IF m[p].Type = GaugeType
           THEN /\ heap' = [heap EXCEPT ![metrics.arr][i[p]].Value =
                                            GaugeMerge(old, m[p].Value)]
                /\ pc' = [pc EXCEPT ![p] = "Unlock"]
                /\ tmp' = tmp
                /\ Effect(m[p])
           ELSE IF m[p].Type # CounterType
           THEN /\ pc' = [pc EXCEPT ![p] = "Unlock"]
                /\ UNCHANGED <<heap, tmp, hist>>
           ELSE IF AssertInt64(old, m[p].Value)
           THEN /\ tmp' = [tmp EXCEPT ![p] = CounterSum(old, m[p].Value)]
                /\ pc' = [pc EXCEPT ![p] = "store"]
                /\ UNCHANGED <<heap, hist>>
           ELSE /\ pc' = [pc EXCEPT ![p] = "UnlockPanic"]
                /\ UNCHANGED <<heap, tmp, hist>>
    /\ UNCHANGED <<req, out, metrics, wmu, readers, m, i, n, res, j, snap, calls>>

\* line 55: the assignment to s.metrics[i].Value.
AddStore(p) ==
    /\ pc[p] = "store"
    /\ heap' = [heap EXCEPT ![metrics.arr][i[p]].Value = tmp[p]]
    /\ pc' = [pc EXCEPT ![p] = "Unlock"]
    /\ Effect(m[p])
    /\ UNCHANGED <<req, out, metrics, wmu, readers, locals, snap, calls>>

\* line 61: s.metrics = append(s.metrics, m)
AddAppend(p) ==
    /\ pc[p] = "append"
    /\ LET r == AppendSlice(heap, metrics, m[p])
       IN  /\ metrics' = r[1]
           /\ heap' = Collect(r[2], Roots(r[1], res, snap))
    /\ pc' = [pc EXCEPT ![p] = "Unlock"]
    /\ Effect(m[p])
    /\ UNCHANGED <<req, out, wmu, readers, locals, snap, calls>>

\* line 47: the deferred s.Unlock(), run when Add returns or panics; the
\* handler then answers 200, or the middleware of lines 81-89 recovers.
AddUnlock(p) ==
    /\ pc[p] \in {"Unlock", "UnlockPanic"}
    /\ wmu' = Release(wmu, p, IF pc[p] = "UnlockPanic" THEN "panic"
                              ELSE IF i[p] > n[p] THEN "append" ELSE "match")
    /\ pc' = [pc EXCEPT ![p] = "idle"]
    /\ m' = [m EXCEPT ![p] = ZeroMetric]
    /\ i' = [i EXCEPT ![p] = 0]
    /\ n' = [n EXCEPT ![p] = 0]
    /\ tmp' = [tmp EXCEPT ![p] = NilValue]
    /\ UNCHANGED <<req, out, metrics, heap, readers, res, j, snap, calls, hist>>

--------------------------------------------------------------------------
\* GET /metrics, lines 129-135, and Get, lines 65-72.

\* line 130: a goroutine takes a request for the metrics and calls Get.
GetCall(p) ==
    /\ pc[p] = "idle"
    /\ calls < MaxCalls
    /\ calls' = calls + 1
    /\ pc' = [pc EXCEPT ![p] = "RLock"]
    /\ seen' = [seen EXCEPT ![p] = {abs}]
    /\ pure' = FALSE
    /\ UNCHANGED <<req, metrics, heap, wmu, readers, locals, snap, out, snapVal,
                   abs, total, lastG>>

\* line 66: s.RLock()
GetRLock(p) ==
    /\ pc[p] = "RLock"
    /\ RLockFree(wmu, p)
    /\ readers' = readers \cup {p}
    /\ pc' = [pc EXCEPT ![p] = "make"]
    /\ UNCHANGED <<req, out, metrics, heap, wmu, locals, snap, calls, hist>>

\* A make that allocates one element more than the store holds.
MakeLenOneMore(s) == s.len + 1

\* line 69: len(s.metrics), the length of the slice Get allocates.
MakeLen(s) == s.len

\* line 69: metrics := make([]Metric, len(s.metrics))
GetMake(p) ==
    /\ pc[p] = "make"
    /\ LET k == MakeLen(metrics)
           a == MakeArr(p)
       IN  /\ n' = [n EXCEPT ![p] = k]
           /\ res' = [res EXCEPT ![p] = [arr |-> a, len |-> k, cap |-> k]]
           /\ heap' = [b \in (DOMAIN heap) \cup {a} |->
                          IF b = a THEN Zeros(k) ELSE heap[b]]
    /\ j' = [j EXCEPT ![p] = 0]
    /\ pc' = [pc EXCEPT ![p] = "copy"]
    /\ UNCHANGED <<req, out, metrics, wmu, readers, m, i, tmp, snap, calls, hist>>

Min(a, b) == IF a < b THEN a ELSE b

\* A copy with its arguments exchanged: copy(s.metrics, metrics).
CopyElemSwapped(h, dst, src, k) == [h EXCEPT ![src.arr][k] = h[dst.arr][k]]

\* line 70: copy moves element k of src to element k of dst.
CopyElem(h, dst, src, k) == [h EXCEPT ![dst.arr][k] = h[src.arr][k]]

\* line 70: copy(metrics, s.metrics), one element a step.
GetCopy(p) ==
    /\ pc[p] = "copy"
    /\ IF j[p] < Min(res[p].len, metrics.len)
       THEN /\ heap' = CopyElem(heap, res[p], metrics, j[p] + 1)
            /\ j' = [j EXCEPT ![p] = @ + 1]
            /\ pc' = pc
       ELSE /\ pc' = [pc EXCEPT ![p] = "RUnlock"]
            /\ UNCHANGED <<heap, j>>
    /\ UNCHANGED <<req, out, metrics, wmu, readers, m, i, n, tmp, res, snap, calls, hist>>

\* lines 67, 71: Get returns its copy and the deferred s.RUnlock() runs.
GetRUnlock(p) ==
    /\ pc[p] = "RUnlock"
    /\ readers' = readers \ {p}
    /\ LET r == Returned(res[p], metrics)
       IN  /\ snap' = [snap EXCEPT ![p] = r]
           /\ snapVal' = [snapVal EXCEPT ![p] = Contents(heap, r)]
           /\ res' = [res EXCEPT ![p] = NilSlice]
           /\ heap' = Collect(heap, Roots(metrics, res', snap'))
    /\ pc' = [pc EXCEPT ![p] = "render"]
    /\ n' = [n EXCEPT ![p] = 0]
    /\ j' = [j EXCEPT ![p] = 0]
    /\ seen' = [seen EXCEPT ![p] = {}]
    /\ UNCHANGED <<req, out, metrics, wmu, m, i, tmp, calls, abs, total, lastG, pure>>

\* fmt: %v of a Metric.Value: an int64 in decimal, a float64 in the shortest
\* decimal text that gives it back (no exponent at the sizes of the model).
FormatInt(v) == IF v < 0 THEN <<"-">> \o IntToStr(0 - v) ELSE IntToStr(v)

RECURSIVE FracDigits(_, _)
FracDigits(f, de) ==
    IF de = 1 THEN <<>>
    ELSE <<Digits[(f \div (de \div 10)) + 1]>> \o FracDigits(f % (de \div 10), de \div 10)

FormatFloat(nu, de) ==
    LET a == IF nu < 0 THEN 0 - nu ELSE nu
    IN  (IF nu < 0 THEN <<"-">> ELSE <<>>)
            \o IntToStr(a \div de)
            \o (IF de = 1 THEN <<>> ELSE <<".">> \o FracDigits(a % de, de))

FormatValue(v) ==
    IF v.rep = "int64" THEN FormatInt(v.num)
    ELSE IF v.rep = "float64" THEN FormatFloat(v.num, v.den)
    ELSE <<"<", "n", "i", "l", ">">>

\* line 133: the line "%s: %v\n" of a metric, as its two texts.
Line(e) == <<e.Name, FormatValue(e.Value)>>

\* A loop that ranges over the store's own slice.
RangeOverStore(p) == metrics

\* lines 130, 132: the slice the loop ranges over, the one Get returned.
RangeOver(p) == snap[p]

\* lines 132-134: one iteration of the loop over the slice Get returned, or
\* its end, when the handler returns and the response is complete.
Render(p) ==
    /\ pc[p] = "render"
    /\ IF Len(out[p]) < RangeOver(p).len
       THEN /\ out' = [out EXCEPT ![p] =
                          Append(@, Line(heap[RangeOver(p).arr][Len(@) + 1]))]
            /\ UNCHANGED <<pc, snap, snapVal, heap>>
       ELSE /\ pc' = [pc EXCEPT ![p] = "idle"]
            /\ out' = [out EXCEPT ![p] = <<>>]
            /\ snap' = [snap EXCEPT ![p] = NilSlice]
            /\ snapVal' = [snapVal EXCEPT ![p] = <<>>]
            /\ heap' = Collect(heap, Roots(metrics, res, snap'))
    /\ UNCHANGED <<req, metrics, wmu, readers, locals, calls, abs, total, lastG, seen, pure>>

--------------------------------------------------------------------------

Next ==
    \E p \in Procs :
        \/ Receive(p)
        \/ Update(p)
        \/ AddLock(p)
        \/ AddLockWait(p)
        \/ AddScan(p)
        \/ AddMerge(p)
        \/ AddStore(p)
        \/ AddAppend(p)
        \/ AddUnlock(p)
        \/ GetCall(p)
        \/ GetRLock(p)
        \/ GetMake(p)
        \/ GetCopy(p)
        \/ GetRUnlock(p)
        \/ Render(p)

Spec == Init /\ [][Next]_vars

\* The steps of goroutine p that wait for nothing but the scheduler, and the
\* wait of Lock for the readers, which new readers cannot prolong.
Run(p) ==
    \/ Update(p)
    \/ AddLockWait(p)
    \/ AddScan(p)
    \/ AddMerge(p)
    \/ AddStore(p)
    \/ AddAppend(p)
    \/ AddUnlock(p)
    \/ GetMake(p)
    \/ GetCopy(p)
    \/ GetRUnlock(p)
    \/ Render(p)

\* Every step of a call in progress.
Step(p) == Run(p) \/ AddLock(p) \/ GetRLock(p)

\* The scheduler runs every goroutine that can run, and the lock is fair: a
\* goroutine that can take it again and again does take it.
FairSpec ==
    /\ Spec
    /\ \A p \in Procs : WF_vars(Run(p)) /\ SF_vars(AddLock(p) \/ GetRLock(p))

--------------------------------------------------------------------------
\* The store used through its interface MemStorage (lines 28-31), by callers
\* that are not the update handler: Add takes any Metric, whatever its Value.

DirectMetrics ==
    { [Name |-> "x", Type |-> CounterType, Value |-> Int64Val(1)],
      [Name |-> "x", Type |-> CounterType, Value |-> Float64Val(15, 10)],
      [Name |-> "x", Type |-> GaugeType, Value |-> Float64Val(1, 1)] }

\* line 45: a goroutine calls Add with a Metric of its choice.
CallAdd(p) ==
    /\ pc[p] = "idle"
    /\ calls < MaxCalls
    /\ calls' = calls + 1
    /\ \E mm \in DirectMetrics : m' = [m EXCEPT ![p] = mm]
    /\ pc' = [pc EXCEPT ![p] = "Lock"]
    /\ pure' = FALSE
    /\ UNCHANGED <<req, out, metrics, heap, wmu, readers, i, n, tmp, res, j, snap,
                   abs, total, lastG, seen, snapVal>>

NextDirect ==
    \E p \in Procs :
        \/ CallAdd(p)
        \/ AddLock(p)
        \/ AddLockWait(p)
        \/ AddScan(p)
        \/ AddMerge(p)
        \/ AddStore(p)
        \/ AddAppend(p)
        \/ AddUnlock(p)
        \/ GetCall(p)
        \/ GetRLock(p)
        \/ GetMake(p)
        \/ GetCopy(p)
        \/ GetRUnlock(p)
        \/ Render(p)

SpecDirect == Init /\ [][NextDirect]_vars

FairDirect ==
    /\ SpecDirect
    /\ \A p \in Procs : WF_vars(Run(p)) /\ SF_vars(AddLock(p) \/ GetRLock(p))

--------------------------------------------------------------------------
\* The properties.

\* What the store holds: s.metrics.
Store == Contents(heap, metrics)

Idle == \A p \in Procs : pc[p] = "idle"

Key(e) == <<e.Name, e.Type>>
Keys(st) == {Key(st[k]) : k \in 1..Len(st)}
NoDuplicate(st) == \A k, l \in 1..Len(st) : Key(st[k]) = Key(st[l]) => k = l

\* The keys some Add has added.
Added ==
    {<<nm, GaugeType>> : nm \in DOMAIN lastG}
        \cup {<<nm, CounterType>> : nm \in DOMAIN total}

\* Goroutine p is between Lock's return and Unlock.
InAdd(p) == pc[p] \in {"scan", "merge", "store", "append", "Unlock", "UnlockPanic"}
\* Goroutine p is between RLock's return and RUnlock.
InCopy(p) == pc[p] \in {"make", "copy", "RUnlock"}

\* C1: when all the requests made were N updates of counter "x" by 1, from
\* goroutines running at the same time or not, and all have returned, the
\* store holds counter "x" with value N and nothing else.
C1_NoLostUpdate ==
    (pure /\ Idle /\ calls > 0) => Store = <<[UnitAdd EXCEPT !.Value = Int64Val(calls)]>>

\* Two increments in flight at once: one has added and not yet released the
\* lock, the other waits for it.
C1_Witness ==
    /\ pure
    /\ \E p, q \in Procs :
          /\ pc[p] = "Unlock" /\ pc[q] = "Lock"
          /\ Store = <<[UnitAdd EXCEPT !.Value = Int64Val(calls - 1)]>>

\* C2, as claimed: the value of every counter entry is the sum of all the
\* values applied to its key.
C2_CounterIsSum ==
    \A k \in 1..Len(Store) :
        (Store[k].Type = CounterType /\ Store[k].Name \in DOMAIN total)
            => Store[k].Value.num = total[Store[k].Name]

\* C3: the value of every gauge entry is the value of the last Add applied to
\* its key.
C3_GaugeLastWrite ==
    \A k \in 1..Len(Store) :
        Store[k].Type = GaugeType
            => /\ Store[k].Name \in DOMAIN lastG
               /\ Store[k].Value = lastG[Store[k].Name]

\* An Add has overwritten an existing gauge with a value it did not hold when
\* Get last returned it.
C3_Witness ==
    \E p, q \in Procs :
        /\ pc[p] = "Unlock" /\ m[p].Type = GaugeType /\ i[p] <= n[p]
        /\ Store[i[p]].Value = m[p].Value
        /\ i[p] <= Len(snapVal[q])
        /\ snapVal[q][i[p]].Value # m[p].Value

\* C4: the store, and every sequence Get returned, holds no key twice, and the
\* store holds exactly the keys that have been added.
C4_KeyUnique ==
    /\ NoDuplicate(Store)
    /\ Keys(Store) = Added
    /\ \A p \in Procs : NoDuplicate(Contents(heap, snap[p]))

\* Two goroutines add the same new key at once: one has appended it, the other
\* waits for the lock.
C4_Witness ==
    \E p, q \in Procs :
        /\ pc[p] = "Unlock" /\ i[p] > n[p]
        /\ pc[q] = "Lock" /\ Key(m[q]) = Key(m[p])

\* C5: a sequence Get returned holds what it held when Get returned.
C5_SnapshotIsolation ==
    \A p \in Procs : Contents(heap, snap[p]) = snapVal[p]

\* After Get returned a sequence, an Add changed the value of one of its
\* entries in the store.
C5_Witness ==
    \E p \in Procs : \E k \in 1..snap[p].len :
        Key(Store[k]) = Key(snapVal[p][k]) /\ Store[k].Value # snapVal[p][k].Value

\* C6: while a goroutine is inside Add's section, no other is inside Add's or
\* Get's.
C6_MutualExclusion ==
    \A p, q \in Procs : (p # q /\ InAdd(p)) => (~InAdd(q) /\ ~InCopy(q))

\* Two Gets are copying at the same time.
C6_Witness ==
    \E p, q \in Procs : p # q /\ pc[p] = "copy" /\ pc[q] = "copy"

\* C7: the store is, in every state, what applying the Adds one at a time, each
\* at the step of its write, gives.
C7_Linearized == Store = abs

\* Two Adds of different keys overlap, and the second entry is in the store.
C7_Witness ==
    \E p, q \in Procs :
        /\ pc[p] = "Unlock" /\ pc[q] = "Lock"
        /\ Key(m[p]) # Key(m[q])
        /\ Len(Store) = 2

\* C8: what a Get returns is what the store held at some instant between the
\* call and the return.
C8_ConsistentGet ==
    [][\A p \in Procs :
          (pc[p] = "RUnlock" /\ pc'[p] = "render") => snapVal'[p] \in seen[p]]_vars

\* A Get is about to return, and Adds took effect after it was called.
C8_Witness ==
    \E p \in Procs :
        pc[p] = "RUnlock" /\ Cardinality(seen[p]) >= 2 /\ res[p].len >= 1

\* The step of goroutine p is the write of its Add.
Writes(p) == pc[p] \in {"merge", "store", "append"} /\ pc'[p] = "Unlock"

\* C9: a key that has been added has one entry, whatever was added under the
\* same name with the other kind, and the write of an Add of one kind leaves
\* the entries of the other kind as they are.
C9_KindIndependence ==
    /\ [](\A key \in Added :
            Cardinality({k \in 1..Len(Store) : Key(Store[k]) = key}) = 1)
    /\ [][\A p \in Procs : Writes(p) =>
            \A k \in 1..Len(Store) :
                Store[k].Type # m[p].Type
                    => (k <= Len(Store') /\ Store'[k] = Store[k])]_vars

\* Gauge "x" and counter "x" both exist and an Add has just updated one of
\* them in place.
C9_Witness ==
    /\ \E nm \in Names : {<<nm, GaugeType>>, <<nm, CounterType>>} \subseteq Keys(Store)
    /\ \E p \in Procs : pc[p] = "Unlock" /\ i[p] <= n[p]

\* C10, as claimed: no step lowers the value of a counter entry.
C10_CounterMonotone ==
    [][\A k \in 1..Len(Store) :
          Store[k].Type = CounterType
              => Store'[k].Value.num >= Store[k].Value.num]_vars


\* The keys of a sequence of metrics, in its order.
KeySeq(st) == [k \in 1..Len(st) |-> Key(st[k])]
IsPrefix(a, b) == Len(a) <= Len(b) /\ \A k \in 1..Len(a) : a[k] = b[k]

\* C11: no step removes an entry or moves one: the store keeps the key at
\* every position and grows at its end only; and the keys of every sequence a
\* Get returned are, in order, a prefix of the keys of the store, so of two
\* returned sequences one lists a prefix of the other's keys.
C11_InsertionOrder ==
    /\ [][IsPrefix(KeySeq(Store), KeySeq(Store'))]_vars
    /\ [](\A p \in Procs : IsPrefix(KeySeq(snapVal[p]), KeySeq(Store)))
    /\ [](\A p, q \in Procs :
            \/ IsPrefix(KeySeq(snapVal[p]), KeySeq(snapVal[q]))
            \/ IsPrefix(KeySeq(snapVal[q]), KeySeq(snapVal[p])))

\* A Get returned one entry, a second key was added after it, and an Add then
\* updated the first entry in place.
C11_Witness ==
    \E p, q \in Procs :
        /\ Len(snapVal[p]) = 1 /\ Len(Store) = 2
        /\ pc[q] = "Unlock" /\ i[q] = 1 /\ n[q] = 2


\* C12: a goroutine that is in no call holds no lock; while some call is in
\* progress some call can take a step; and every call returns.
C12_Completion ==
    /\ [](\A p \in Procs : pc[p] = "idle" => p \notin wmu \cup readers)
    /\ []((\E p \in Procs : pc[p] # "idle") => (\E p \in Procs : ENABLED Step(p)))
    /\ \A p \in Procs : (pc[p] # "idle") ~> (pc[p] = "idle")

\* An Add holds the writers' mutex and waits in Lock for a Get that is copying
\* the entry of the store.
C12_Witness ==
    \E p, q \in Procs :
        /\ pc[p] = "LockWait" /\ pc[q] = "copy"
        /\ wmu = {p} /\ readers = {q} /\ Len(Store) = 1

\* The request is one the handler has to reject: its type is neither gauge
\* nor counter, or its value is not a float (gauge), not an integer (counter).
Rejected(rq) ==
    \/ rq[1] \notin {"gauge", "counter"}
    \/ rq[1] = "gauge" /\ ParseFloat(rq[3]).err
    \/ rq[1] = "counter" /\ ParseInt(rq[3]).err

\* C13: the handler answers a request it has to reject without calling Add
\* (it is back at rest, with no Metric handed over), and its step leaves the
\* store, in the slice and in the heap, as it was.
C13_RejectedBeforeStore ==
    [][\A p \in Procs :
          (pc[p] = "parse" /\ pc'[p] # "parse" /\ Rejected(req[p])) =>
              /\ pc'[p] = "idle"
              /\ m'[p] = m[p]
              /\ metrics' = metrics /\ Store' = Store /\ abs' = abs]_vars

\* Two requests to reject are at the handler, one for its type and one for
\* its value, while the store holds a metric.
C13_Witness ==
    \E p, q \in Procs :
        /\ pc[p] = "parse" /\ req[p][1] = "histogram"
        /\ pc[q] = "parse" /\ req[q][1] = "counter" /\ Rejected(req[q])
        /\ Len(Store) = 1

\* No Add has returned yet: nothing was written to the store, or the one
\* write there is was made by the first Add, which found the store empty
\* (n = 0) and has not released the lock.
NoAddCompleted ==
    \/ abs = <<>>
    \/ Len(abs) = 1 /\ \E q \in Procs : pc[q] = "Unlock" /\ n[q] = 0

\* C14: as long as no Add has returned, what a Get has returned is the empty
\* sequence: a slice of length 0, with no element to read.
C14_FreshGetEmpty ==
    \A p \in Procs :
        (pc[p] = "render" /\ NoAddCompleted) =>
            /\ snap[p].len = 0
            /\ Contents(heap, snap[p]) = <<>>
            /\ snapVal[p] = <<>>

\* A Get has returned on the new store while an Add, called before the Get
\* returned, is still waiting for the lock or holding it.
C14_Witness ==
    \E p, q \in Procs :
        /\ pc[p] = "render" /\ snap[p].len = 0
        /\ pc[q] \in {"LockWait", "scan", "append", "Unlock"}
        /\ NoAddCompleted

\* The value of the metric has the representation of its kind.
WellTyped(e) ==
    \/ e.Type = GaugeType /\ e.Value.rep = "float64"
    \/ e.Type = CounterType /\ e.Value.rep = "int64"

\* Goroutine p is in a call of Add, from the call to the return.
Called(p) == pc[p] \in {"Lock", "LockWait"} \/ InAdd(p)

\* C15: the Metric of every call of Add and every entry of the store has a
\* float64 value if it is a gauge and an int64 value if it is a counter, and
\* no call of Add is ever unwinding from a failed .(int64).
C15_KindRepresentation ==
    /\ \A p \in Procs : Called(p) => WellTyped(m[p])
    /\ \A k \in 1..Len(Store) : WellTyped(Store[k])
    /\ \A p \in Procs : pc[p] # "UnlockPanic"

\* Both assertions of the counter branch have passed, on a stored counter
\* next to a stored gauge of the same name.
C15_Witness ==
    \E p \in Procs :
        /\ pc[p] = "store" /\ m[p].Type = CounterType
        /\ Len(Store) = 2
        /\ \E k \in 1..2 : Store[k].Type = GaugeType

\* Goroutine p holds the write lock and has written nothing, before and after
\* the step: it scans, it is at the merge, or it unwinds from the failed
\* assertion of line 55 and returns.
NotWritten(p) ==
    /\ pc[p] \in {"scan", "merge", "UnlockPanic"}
    /\ pc'[p] \in {"scan", "merge", "UnlockPanic", "idle"}

\* C16: an Add that aborts at the counter merge has changed nothing from the
\* moment it got the lock to its return, its return frees the lock, the store
\* stays what the Adds that did write make it, and every call made, before
\* or after the failure, returns.
C16_FailureIsolation ==
    /\ [][\A p \in Procs :
             (NotWritten(p) /\ "UnlockPanic" \in {pc[p], pc'[p]}) =>
                 /\ metrics' = metrics /\ Store' = Store /\ abs' = abs
                 /\ (pc'[p] = "idle" => wmu' = {})]_vars
    /\ [](Store = abs /\ NoDuplicate(Store))
    /\ [](\A p \in Procs : pc[p] = "idle" => p \notin wmu \cup readers)
    /\ \A p \in Procs : (pc[p] # "idle") ~> (pc[p] = "idle")

\* An Add has aborted at the merge of a stored counter and has not returned
\* yet, while another Add waits for the lock.
C16_Witness ==
    \E p, q \in Procs :
        /\ pc[p] = "UnlockPanic" /\ wmu = {p}
        /\ pc[q] = "Lock"
        /\ Len(Store) = 2

\* The lines of a sequence of metrics, one for each, in its order.
Lines(sv) == [k \in 1..Len(sv) |-> <<sv[k].Name, FormatValue(sv[k].Value)>>]

\* C17: the lines written so far to a response are the lines of the first
\* metrics of the sequence its Get returned, whatever Adds do in between;
\* a line once written stays; and the response ends with one line for each
\* metric of that sequence, in its order.
C17_OneSnapshot ==
    /\ [](\A p \in Procs :
            /\ Len(out[p]) <= Len(snapVal[p])
            /\ out[p] = SubSeq(Lines(snapVal[p]), 1, Len(out[p])))
    /\ [][\A p \in Procs :
             /\ (pc[p] = "render" /\ pc'[p] = "render") => IsPrefix(out[p], out'[p])
             /\ (pc[p] = "render" /\ pc'[p] = "idle") => out[p] = Lines(snapVal[p])]_vars

\* The first of two lines is written, and an Add that has returned since
\* changed in the store the value the second line is about.
C17_Witness ==
    \E p \in Procs :
        /\ pc[p] = "render" /\ Len(out[p]) = 1 /\ Len(snapVal[p]) = 2
        /\ Len(Store) = 2 /\ Store[2].Value # snapVal[p][2].Value
        /\ \A q \in Procs \ {p} : pc[q] = "idle"

\* The positions of the store that hold the key of metric mm.
At(mm) == {k \in 1..Len(Store) : Key(Store[k]) = Key(mm)}

\* C18: the write of an Add leaves every entry of another key as it is and
\* where it is; when the key was absent the store gets one entry more, the
\* input itself, at its end; when it was present the store keeps its length
\* and the entry its place, name and kind.  No other step changes the store.
C18_FrameOfAdd ==
    [][/\ \A p \in Procs : Writes(p) =>
             /\ \A k \in (1..Len(Store)) \ At(m[p]) :
                    k <= Len(Store') /\ Store'[k] = Store[k]
             /\ At(m[p]) = {} =>
                    Store' = Append(Store, m[p])
             /\ At(m[p]) # {} =>
                    /\ Len(Store') = Len(Store)
                    /\ \A k \in At(m[p]) : Key(Store'[k]) = Key(Store[k])
       /\ (\A p \in Procs : ~Writes(p)) => Store' = Store]_vars

\* An Add has summed into the counter, the first entry, with a gauge stored
\* after it, and has not returned yet.
C18_Witness ==
    \E p \in Procs :
        /\ pc[p] = "Unlock" /\ i[p] = 1 /\ n[p] = 2
        /\ Store[1].Type = CounterType /\ Store[1].Value.num >= 2
        /\ Store[2].Type = GaugeType

\* The step is one of goroutine p inside Get.
GetStep(p) == InGet(p) /\ (pc'[p] # pc[p] \/ j'[p] # j[p])

\* C19: no step of a Get changes the store, its slice or its entries; the
\* sequence a Get returns is the store's at its return, so that it equals
\* what any Get running beside it has copied, and Gets between which the
\* store did not change return equal sequences.
C19_FrameOfGet ==
    [][\A p \in Procs :
          /\ GetStep(p) =>
                metrics' = metrics /\ Store' = Store /\ abs' = abs
          /\ (pc[p] = "RUnlock" /\ pc'[p] = "render") =>
                /\ snapVal'[p] = Store
                /\ \A q \in Procs :
                      pc[q] = "RUnlock" => Contents(heap, res[q]) = snapVal'[p]]_vars

\* Two Gets that ran side by side are both about to return the two entries
\* of the store.
C19_Witness ==
    \E p, q \in Procs :
        /\ p # q /\ pc[p] = "RUnlock" /\ pc[q] = "RUnlock"
        /\ Len(Store) = 2 /\ res[p].len = 2 /\ res[q].len = 2

====
